---- MODULE Spec2Model ----
(***************************************************************************)
(* A model of the useAwait hook of use-await-data (src/src/index.ts).      *)
(*                                                                         *)
(* One hook instance is modelled.  A "generation" is one run of the        *)
(* submission block (index.ts:136-181): the closures abort, updateResult,  *)
(* onfulfilled, onrejected and tick created in that render all close over  *)
(* the task function and the AbortController of that render.  The tracker  *)
(* `statuses` is a Map keyed by the task function object, so the model     *)
(* keeps the task identity of every generation apart from the generation   *)
(* number.  The observed result is the React state set by setResult.       *)
(***************************************************************************)
EXTENDS Integers, FiniteSets, Sequences, TLC

\* ------------------------------------------------------------- bounds
\* Number of submissions (initial render + dependency changes) explored.
MaxGen == 2
\* Number of distinct values a task may fulfil with, and of distinct user
\* errors it may reject with.
MaxPayload == 2

Gens == 1..MaxGen
\* Identities of task function objects (keys of the Map).
TaskIds == 1..MaxGen
Values == 1..MaxPayload
UserErrors == 1..MaxPayload

\* ------------------------------------------------------------- constants
\* The two module-private sentinel symbols (index.ts:3-4).
symbolInvalidate == -1
symbolAborted == -2
Sentinels == {symbolInvalidate, symbolAborted}

\* `undefined`: an absent Map entry, an unset ref, an unused record field.
None == 0

\* useAwait.Status (index.ts:194) plus "absent" for a key not in the Map.
Status == {"running", "aborted", "fulfilled", "rejected"}
Absent == "absent"

\* useAwait.Result (index.ts:186-190).  `abort` is the generation whose
\* abort closure the running result carries.
ResultFulfilled(v) == [status |-> "fulfilled", value |-> v, error |-> None, abort |-> None]
ResultRejected(e) == [status |-> "rejected", value |-> None, error |-> e, abort |-> None]
ResultRunning(g) == [status |-> "running", value |-> None, error |-> None, abort |-> g]
ResultAborted == [status |-> "aborted", value |-> None, error |-> None, abort |-> None]

\* What tick() settles with when it resolves (it resolves with tick itself).
TickResolved == 1

VARIABLES
    statuses,      \* the Map task -> status (index.ts:112); Absent = no entry
    oldEffectRef,  \* oldEffectRef.current (index.ts:116); None = undefined
    result,        \* the React state `result` (index.ts:126)
    gen,           \* number of submissions so far = the current generation
    taskOf,        \* taskOf[g]: the task function captured by generation g
    signal,        \* signal[g]: abortController.signal.aborted of generation g
    promise,       \* promise[g]: the promise returned by task(scheduler)
    seen,          \* seen[g]: sentinels generation g's task got from tick()
    startedWith,   \* startedWith[g]: result.status when task g was invoked
    abortedBy,     \* abortedBy[g]: history: abort() of g has been invoked
                   \* while generation g was running (GenRunning)
    lastOp         \* the operation that produced the current state

vars == <<statuses, oldEffectRef, result, gen, taskOf, signal, promise, seen,
          startedWith, abortedBy, lastOp>>

\* A promise is pending or settled once with a value or an error.
Pending == [state |-> "pending", value |-> None, error |-> None]
Unborn == [state |-> "unborn", value |-> None, error |-> None]
SettledFulfilled(v) == [state |-> "fulfilled", value |-> v, error |-> None]
SettledRejected(e) == [state |-> "rejected", value |-> None, error |-> e]

Op(name, g) == [op |-> name, g |-> g]

\* statuses.get(task)
StatusesGet(m, t) == m[t]
\* statuses.set(task, status)
StatusesSet(m, t, s) == [m EXCEPT ![t] = s]
\* statuses.delete(task)
StatusesDelete(m, t) == [m EXCEPT ![t] = Absent]

\* Faulty variant of updateResult: a settled generation is removed from the
\* tracker instead of being recorded with its status.
UpdateStatusesSettleDeletes(m, t, r) ==
    IF r.status \in {"fulfilled", "rejected"}
    THEN StatusesDelete(m, t)
    ELSE StatusesSet(m, t, r.status)

\* updateResult (index.ts:130-133): record the status under the task key.
UpdateStatuses(m, t, r) == StatusesSet(m, t, r.status)

\* Faulty variants of the guard of abort: comparing with the wrong status,
\* and no guard at all.
AbortEffectiveWrongStatus(m, t) == StatusesGet(m, t) = "aborted"
AbortEffectiveUnguarded(m, t) == TRUE

\* The guard of abort (index.ts:120).
AbortEffective(m, t) == StatusesGet(m, t) = "running"

\* Faulty variant of the filter of onfulfilled: "running" falls into the
\* discarding cases.
FulfilDeliveredDropsRunning(m, t) ==
    StatusesGet(m, t) \notin {Absent, "aborted", "running"}

\* The filter of onfulfilled (index.ts:138-145): TRUE when the value is
\* delivered.
FulfilDelivered(m, t) == StatusesGet(m, t) \notin {Absent, "aborted"}

\* Faulty variant of the filter of onrejected: the symbolAborted case is
\* missing.
RejectDeliveredMissesAborted(m, t, e) == e # symbolInvalidate

\* The filter of onrejected (index.ts:148-155): TRUE when the error is
\* delivered.  It looks at the error only, never at the tracker.
RejectDelivered(m, t, e) == e \notin Sentinels

\* tick (index.ts:158-170): what the promise it returns settles with.
TickOutcome(m, t) ==
    CASE StatusesGet(m, t) = Absent -> symbolInvalidate
      [] StatusesGet(m, t) = "aborted" -> symbolAborted
      [] OTHER -> TickResolved

\* Faulty variant of the submission block: the old task is not invalidated.
SubmitStatusesKeepsOld(m, old, t) == UpdateStatuses(m, t, ResultRunning(None))

\* The tracker after the submission block's lines 175-177 for task t.
SubmitStatuses(m, old, t) ==
    LET m1 == UpdateStatuses(m, t, ResultRunning(None))
    IN IF old # None THEN StatusesDelete(m1, old) ELSE m1

\* Faulty variant: the task is started before the running result is emitted.
ResultAtTaskStartBeforeEmit(before, emitted) == before

\* The result an observer sees at the moment task(scheduler) is invoked
\* (index.ts:180), given the result before the submission and the one
\* emitted by line 175.
ResultAtTaskStart(before, emitted) == emitted

\* Faulty variant: the controller is memoised once, so the new generation is
\* handed the signal state of the previous one.
NewSignalShared(sig, prev, g) == [sig EXCEPT ![g] = sig[prev]]

\* new AbortController() of the render of generation g (index.ts:118): its
\* signal starts non-aborted, whatever the previous generation's signal is.
NewSignal(sig, prev, g) == [sig EXCEPT ![g] = FALSE]

\* The state after the first render: the submission block has run once.
Init ==
    LET t == 1
    IN  /\ statuses = SubmitStatuses([k \in TaskIds |-> Absent], None, t)
        /\ oldEffectRef = t
        /\ result = ResultRunning(1)
        /\ gen = 1
        /\ taskOf = [g \in Gens |-> IF g = 1 THEN t ELSE None]
        /\ signal = [g \in Gens |-> FALSE]
        /\ promise = [g \in Gens |-> IF g = 1 THEN Pending ELSE Unborn]
        /\ seen = [g \in Gens |-> {}]
        /\ startedWith = [g \in Gens |-> IF g = 1 THEN "running" ELSE "none"]
        /\ abortedBy = [g \in Gens |-> FALSE]
        /\ lastOp = Op("submit", 1)

\* A render with changed dependencies and task function t (index.ts:118-181).
Submit(t) ==
    /\ gen < MaxGen
    /\ LET g == gen + 1
           emitted == ResultRunning(g)
       IN /\ statuses' = SubmitStatuses(statuses, oldEffectRef, t)
          /\ oldEffectRef' = t
          /\ result' = emitted
          /\ gen' = g
          /\ taskOf' = [taskOf EXCEPT ![g] = t]
          /\ promise' = [promise EXCEPT ![g] = Pending]
          /\ startedWith' = [startedWith EXCEPT
                                ![g] = ResultAtTaskStart(result, emitted).status]
          /\ signal' = NewSignal(signal, gen, g)
          /\ lastOp' = Op("submit", g)
    /\ UNCHANGED <<seen, abortedBy>>

\* The caller passes a task function object it has not passed before (the
\* inline `async () => ...` closure of the tests and the README example is a
\* new object on every render).  Identities are opaque and only compared for
\* equality, so the unused identities are interchangeable: the least one is
\* taken.
FreshTask(t) ==
    /\ \A g \in 1..gen : taskOf[g] # t
    /\ \A u \in TaskIds : (\A g \in 1..gen : taskOf[g] # u) => t <= u

\* History only, stated without the tracker: generation g is running when
\* it is the latest submission, no abort() has hit it while it was running,
\* and its task has neither fulfilled nor rejected with a user error.
GenRunning(g) ==
    /\ g = gen
    /\ ~abortedBy[g]
    /\ promise[g].state # "fulfilled"
    /\ ~(promise[g].state = "rejected" /\ promise[g].error \in UserErrors)

\* The abort closure of generation g is invoked (index.ts:119-124).
Abort(g) ==
    /\ g \in 1..gen
    /\ IF AbortEffective(statuses, taskOf[g])
       THEN /\ statuses' = UpdateStatuses(statuses, taskOf[g], ResultAborted)
            /\ result' = ResultAborted
            /\ signal' = [signal EXCEPT ![g] = TRUE]
       ELSE UNCHANGED <<statuses, result, signal>>
    /\ abortedBy' = [abortedBy EXCEPT ![g] = @ \/ GenRunning(g)]
    /\ lastOp' = Op("abort", g)
    /\ UNCHANGED <<oldEffectRef, gen, taskOf, promise, seen, startedWith>>

\* The task of generation g fulfils with v; onfulfilled runs (index.ts:137-146).
Fulfil(g, v) ==
    /\ g \in 1..gen
    /\ promise[g] = Pending
    /\ promise' = [promise EXCEPT ![g] = SettledFulfilled(v)]
    /\ IF FulfilDelivered(statuses, taskOf[g])
       THEN /\ statuses' = UpdateStatuses(statuses, taskOf[g], ResultFulfilled(v))
            /\ result' = ResultFulfilled(v)
       ELSE UNCHANGED <<statuses, result>>
    /\ lastOp' = Op("fulfil", g)
    /\ UNCHANGED <<oldEffectRef, gen, taskOf, signal, seen, startedWith, abortedBy>>

\* The task of generation g rejects with e; onrejected runs (index.ts:147-156).
\* A sentinel is a module-private symbol: a task can only throw one that a
\* tick() of its own has rejected with.
Reject(g, e) ==
    /\ g \in 1..gen
    /\ promise[g] = Pending
    /\ e \in UserErrors \/ e \in seen[g]
    /\ promise' = [promise EXCEPT ![g] = SettledRejected(e)]
    /\ IF RejectDelivered(statuses, taskOf[g], e)
       THEN /\ statuses' = UpdateStatuses(statuses, taskOf[g], ResultRejected(e))
            /\ result' = ResultRejected(e)
       ELSE UNCHANGED <<statuses, result>>
    /\ lastOp' = Op("reject", g)
    /\ UNCHANGED <<oldEffectRef, gen, taskOf, signal, seen, startedWith, abortedBy>>

\* Faulty variant of tick: a call that finds `aborted` consumes the entry.
TickConsumesAborted(g) ==
    /\ g \in 1..gen
    /\ LET out == TickOutcome(statuses, taskOf[g])
       IN /\ seen' = [seen EXCEPT ![g] = IF out \in Sentinels THEN @ \cup {out} ELSE @]
          /\ statuses' = IF out = symbolAborted
                         THEN StatusesDelete(statuses, taskOf[g])
                         ELSE statuses
          /\ lastOp' = Op("tick", g)
    /\ UNCHANGED <<oldEffectRef, result, gen, taskOf, signal, promise,
                   startedWith, abortedBy>>

\* The tick closure of generation g is called (index.ts:158-170).  It is a
\* plain function: nothing in the code stops a call after the task settled.
Tick(g) ==
    /\ g \in 1..gen
    /\ LET out == TickOutcome(statuses, taskOf[g])
       IN /\ seen' = [seen EXCEPT ![g] = IF out \in Sentinels THEN @ \cup {out} ELSE @]
          /\ lastOp' = Op("tick", g)
    /\ UNCHANGED <<statuses, oldEffectRef, result, gen, taskOf, signal, promise,
                   startedWith, abortedBy>>

Next ==
    \/ \E t \in TaskIds : FreshTask(t) /\ Submit(t)
    \/ \E g \in Gens : Abort(g)
    \/ \E g \in Gens, v \in Values : Fulfil(g, v)
    \/ \E g \in Gens, e \in UserErrors \cup Sentinels : Reject(g, e)
    \/ \E g \in Gens : Tick(g)

Spec == Init /\ [][Next]_vars

\* The same hook with a caller that may pass any task function object,
\* including one it has passed before (a function defined outside the
\* component is the same object on every render).
NextReuse ==
    \/ \E t \in TaskIds : Submit(t)
    \/ \E g \in Gens : Abort(g)
    \/ \E g \in Gens, v \in Values : Fulfil(g, v)
    \/ \E g \in Gens, e \in UserErrors \cup Sentinels : Reject(g, e)
    \/ \E g \in Gens : Tick(g)

SpecReuse == Init /\ [][NextReuse]_vars

\* ------------------------------------------------------------- helpers
\* The step just taken is the named operation of generation g.
Did(name, g) == lastOp' = Op(name, g)
\* Generation g has been superseded by a newer submission.
Superseded(g) == g \in 1..gen /\ g < gen
\* The step is a settlement of generation g's task.
Settles(g) == Did("fulfil", g) \/ Did("reject", g)


\* ------------------------------------------------------------- C1
\* C1 (invalidation is silent): when a generation that has been superseded
\* by a newer submission settles (fulfils, or rejects with any error), the
\* observed result is left unchanged; and a fulfilled or rejected result is
\* always the outcome of the most recently submitted generation.
C1_InvalidationSilent ==
    [][/\ \A g \in Gens : (Superseded(g) /\ Settles(g)) => result' = result
       /\ result'.status = "fulfilled"
            => promise'[gen'] = SettledFulfilled(result'.value)
       /\ result'.status = "rejected"
            => promise'[gen'] = SettledRejected(result'.error)]_vars

\* ------------------------------------------------------------- C2
\* C2 (abort is sticky): once abort() has been invoked on the current
\* generation while it was running, the observed result is `aborted` in
\* every state until the next submission.
C2_AbortSticky == abortedBy[gen] => result = ResultAborted

\* ------------------------------------------------------------- C3
\* C3 (single emission at abort): invoking the abort handle carried by a
\* running result changes, in that step, the observed result to `aborted`
\* and that generation's tracker entry to `aborted`; no other tracker entry
\* changes.
C3_AbortEmitsOnce ==
    [][\A g \in Gens :
          (Did("abort", g) /\ result = ResultRunning(g)) =>
              /\ result' = ResultAborted
              /\ StatusesGet(statuses', taskOf[g]) = "aborted"
              /\ \A t \in TaskIds : t # taskOf[g] => statuses'[t] = statuses[t]]_vars

\* abort() of the current generation has just turned a running result of
\* a resubmitted generation into aborted.
C3_Witness ==
    /\ lastOp = Op("abort", gen)
    /\ gen > 1
    /\ result = ResultAborted
    /\ abortedBy[gen]

\* ------------------------------------------------------------- C4
\* C4 (late or repeated abort is inert): abort() of a generation whose
\* tracker status is not `running` leaves the observed result, the tracker
\* and every cancellation signal unchanged.
C4_LateAbortInert ==
    [][\A g \in Gens :
          (Did("abort", g) /\ StatusesGet(statuses, taskOf[g]) # "running") =>
              UNCHANGED <<result, statuses, signal>>]_vars

\* abort() has just been invoked on the current generation after its
\* outcome was delivered, or after it had already been aborted.
C4_Witness ==
    /\ lastOp = Op("abort", gen)
    /\ \/ result.status \in {"fulfilled", "rejected"}
       \/ result = ResultAborted /\ promise[gen].state = "fulfilled"

\* ------------------------------------------------------------- C5
\* C5 (always-running initial state): right after every submission the
\* observed result is `running` with the new generation's abort handle, and
\* that result was already observable when the new task was invoked.
C5_RunningAfterSubmit ==
    \A g \in Gens :
        /\ lastOp = Op("submit", g) => result = ResultRunning(g) /\ g = gen
        /\ g \in 1..gen => startedWith[g] = "running"

\* A dependency change has just resubmitted after the previous generation's
\* outcome had been delivered or the previous generation had been aborted.
C5_Witness ==
    /\ gen > 1
    /\ lastOp = Op("submit", gen)
    /\ promise[gen - 1].state # "pending" \/ abortedBy[gen - 1]
    /\ result = ResultRunning(gen)

\* ------------------------------------------------------------- C6
\* C6 (yield-point fails exactly when stale): a yield-point call of
\* generation g resolves iff g is the current generation and has not been
\* aborted; it rejects with the Invalidated signal when g has been
\* superseded, and with the Aborted signal when g is current and aborted.
C6_TickFailsIffStale ==
    \A g \in Gens :
        lastOp = Op("tick", g) =>
            TickOutcome(statuses, taskOf[g]) =
                IF Superseded(g) THEN symbolInvalidate
                ELSE IF abortedBy[g] THEN symbolAborted
                ELSE TickResolved

C8_SentinelsNeverSurface ==
    [][/\ result'.status = "rejected" => result'.error \notin Sentinels
       /\ \A g \in Gens :
            (Did("reject", g) /\ promise'[g].error \in Sentinels) =>
                UNCHANGED <<result, statuses>>]_vars

\* A task has just rejected with the Aborted sentinel its tick() gave it.
C8_Witness ==
    \E g \in 1..gen :
        /\ lastOp = Op("reject", g)
        /\ promise[g] = SettledRejected(symbolAborted)
        /\ result = ResultAborted

C10_StaleAbortNoOp ==
    [][\A g \in Gens :
          (Did("abort", g) /\ Superseded(g)) =>
              UNCHANGED <<result, statuses, signal>>]_vars

\* The abort handle of generation 1 has just been invoked while generation
\* 2 is running and generation 1's task is still pending or has rejected.
C10_Witness ==
    /\ gen > 1
    /\ lastOp = Op("abort", 1)
    /\ promise[1].state \in {"pending", "rejected"}
    /\ result = ResultRunning(gen)

\* ------------------------------------------------------------- C11
\* C11 (monotonic result within a generation): a step other than a
\* submission changes the observed result only from `running` to one of
\* `fulfilled`, `rejected`, `aborted`; a terminal result is replaced only
\* by the `running` result of a new submission.
C11_MonotonicWithinGeneration ==
    [][(result' # result /\ lastOp'.op # "submit") =>
          /\ result.status = "running"
          /\ result'.status \in {"fulfilled", "rejected", "aborted"}]_vars

\* ------------------------------------------------------------- C12
\* C12 (tracker invariant, running entry): at most one tracker entry has
\* status `running`, and if there is one it is the entry of the most
\* recently submitted generation.
C12_OneRunningEntry ==
    \A t \in TaskIds : StatusesGet(statuses, t) = "running" => t = taskOf[gen]

\* After a resubmission the new generation's entry is `running` while the
\* old generation's task has an entry again (it rejected late).
C12_Witness ==
    /\ gen > 1
    /\ StatusesGet(statuses, taskOf[gen]) = "running"
    /\ StatusesGet(statuses, taskOf[1]) = "rejected"

\* ------------------------------------------------------------- C13
\* C13 (tracker invariant, older entries): every generation older than the
\* current one is absent from the tracker or marked `aborted`.
C13_OlderEntriesGone ==
    \A g \in Gens :
        Superseded(g) => StatusesGet(statuses, taskOf[g]) \in {Absent, "aborted"}

\* ------------------------------------------------------------- C14
\* The observed result is the outcome generation g's task settled with.
Delivered(g) ==
    \/ result.status = "fulfilled" /\ promise[g] = SettledFulfilled(result.value)
    \/ result.status = "rejected" /\ promise[g] = SettledRejected(result.error)

\* C14 as stated (settlement removes the generation from the tracker):
\* once the current generation's outcome is delivered as `fulfilled` or
\* `rejected`, its identity is absent from the tracker and a yield-point
\* call for it fails with Invalidated.
C14_SettlementRemovesEntry ==
    Delivered(gen) =>
        /\ StatusesGet(statuses, taskOf[gen]) = Absent
        /\ TickOutcome(statuses, taskOf[gen]) = symbolInvalidate

\* C14 as amended: once the current generation's outcome is delivered as
\* `fulfilled` or `rejected`, the tracker records that status under its
\* identity, and until the next submission a yield-point call for it
\* resolves.
C14_SettlementRecordsStatus ==
    Delivered(gen) =>
        /\ StatusesGet(statuses, taskOf[gen]) = result.status
        /\ TickOutcome(statuses, taskOf[gen]) = TickResolved

\* tick() of a resubmitted generation has just been called after that
\* generation's value was delivered.
C14_Witness ==
    /\ gen > 1
    /\ lastOp = Op("tick", gen)
    /\ Delivered(gen)
    /\ result.status = "fulfilled"

\* ------------------------------------------------------------- C15
\* Generation g's task has settled with a value or a user error.
SettledWithOutcome(g) ==
    \/ promise[g].state = "fulfilled"
    \/ promise[g].state = "rejected" /\ promise[g].error \in UserErrors

\* C15 (abort/settlement race): for the current generation, when the
\* settlement comes after an abort() that hit it while running, the observed
\* result after both is `aborted`; when abort() comes after the settlement,
\* the observed result after both is the settlement's outcome.
C15_RaceDecidedByOrder ==
    [][/\ (Settles(gen) /\ abortedBy[gen]) => result' = ResultAborted
       /\ (Did("abort", gen) /\ ~abortedBy[gen] /\ SettledWithOutcome(gen))
            => \/ result' = ResultFulfilled(promise[gen].value)
                  /\ promise[gen].state = "fulfilled"
               \/ result' = ResultRejected(promise[gen].error)
                  /\ promise[gen].state = "rejected"]_vars

\* ------------------------------------------------------------- C16
\* C16 (the yield-point is a pure polling checkpoint): a tick() call leaves
\* the tracker, the observed result, every cancellation signal and the
\* previous-task reference unchanged, and the only sentinel it can hand to
\* the task is the one the tracker status at call time determines.
C16_TickIsPure ==
    [][\A g \in Gens :
          Did("tick", g) =>
              /\ UNCHANGED <<statuses, result, signal, oldEffectRef>>
              /\ seen'[g] \ seen[g] \subseteq
                     {TickOutcome(statuses, taskOf[g])} \cap Sentinels]_vars

\* tick() of an aborted current generation has just rejected with Aborted.
C16_Witness ==
    /\ lastOp = Op("tick", gen)
    /\ symbolAborted \in seen[gen]
    /\ StatusesGet(statuses, taskOf[gen]) = "aborted"
    /\ result = ResultAborted

\* ------------------------------------------------------------- C17
\* C17 (registration survives retirement): right after every submission
\* the tracker maps the newly submitted task's identity to `running`,
\* whatever task identity is passed, the previous one included.
C17_RegistrationSurvives ==
    \A g \in Gens :
        lastOp = Op("submit", g) => StatusesGet(statuses, taskOf[g]) = "running"

\* ------------------------------------------------------------- C18
\* C18 (result/tracker agreement): the status of the observed result
\* equals the tracker status of the most recently submitted generation.
C18_ResultAgreesWithTracker ==
    result.status = StatusesGet(statuses, taskOf[gen])

\* ------------------------------------------------------------- C19
\* C19 (per-generation signal isolation): a submission hands the new
\* generation a signal that is not aborted and leaves every other
\* generation's signal as it is; abort() of generation g changes no signal
\* but g's.
C19_SignalIsolation ==
    [][\A g \in Gens :
          /\ Did("submit", g) =>
                /\ ~signal'[g]
                /\ \A h \in Gens : h # g => signal'[h] = signal[h]
          /\ Did("abort", g) =>
                \A h \in Gens : h # g => signal'[h] = signal[h]]_vars

\* A dependency change has just resubmitted after the previous generation
\* was aborted: the old signal is aborted, the new one is not.
C19_Witness ==
    /\ gen > 1
    /\ lastOp = Op("submit", gen)
    /\ signal[gen - 1]
    /\ ~signal[gen]

====
